---- MODULE Spec2Model ----
(***************************************************************************)
(* vloggo: the file-rotation/retention engine (FileService), the throttled *)
(* notifier (EmailService), the logging facade (VLoggo) and its            *)
(* configuration (Config).                                                 *)
(*                                                                         *)
(* Time is one clock, `now`, counted in ticks; the calendar date and the   *)
(* epoch time both derive from it.  The disk is the set of existing        *)
(* directories and a map from path to file.  Every synchronous method is   *)
(* an operator from the state before to the state after (plus what the     *)
(* call did), so that a handler calling several methods is one action.     *)
(***************************************************************************)
EXTENDS Integers, Sequences, FiniteSets, TLC

VARIABLES now, steps, faults, cfg, svc, disk, tasks, mail, deliveries, rotatedOn, obs,
          confs, heap

vars == <<now, steps, faults, cfg, svc, disk, tasks, mail, deliveries, rotatedOn, obs,
          confs, heap>>

----------------------------------------------------------------------------
(* Bounds of the model *)

\* how many events (API calls and advances of the clock) one behaviour has
MaxSteps == 4
\* how many I/O calls the operating system refuses in one behaviour of a VLoggo
\* instance or of the notifier
MaxFaults == 2
\* how many it refuses in one behaviour of the retention engine called directly
EngineFaults == 1
\* how many cleanup passes may be in flight at once
MaxTasks == 2
\* the throttle intervals tried, in ticks: 0..MaxThrottle
MaxThrottle == 5
\* the retention caps (config.filecount) of the two streams
FilecountTxt == 1
FilecountJson == 2
\* how many Config instances one behaviour constructs, how many calls it makes on
\* them, and how many properties the argument of one update() provides
MaxConfigs == 2
MaxConfigCalls == 3
MaxProvided == 2

----------------------------------------------------------------------------
(* The clock and the calendar *)

\* ticks in a calendar day
TicksPerDay == 2
\* days in the long jump of the clock (a month of idling)
IdleDays == 31
\* the tick at which the program starts: the last tick of 2025-01-01 (tick 0 is the
\* first of 2024-12-30)
StartNow == 5

IsLeap(y) == (y % 4 = 0 /\ y % 100 # 0) \/ y % 400 = 0

MonthLen(y, m) ==
    IF m = 2 THEN (IF IsLeap(y) THEN 29 ELSE 28)
    ELSE IF m \in {4, 6, 9, 11} THEN 30 ELSE 31

RECURSIVE WalkDate(_, _, _)
WalkDate(y, m, n) ==
    IF n < MonthLen(y, m) THEN [y |-> y, m |-> m, d |-> n + 1]
    ELSE WalkDate(IF m = 12 THEN y + 1 ELSE y, IF m = 12 THEN 1 ELSE m + 1, n - MonthLen(y, m))

\* new Date(): the local calendar date of the tick t
DateOf(t) == WalkDate(2024, 12, 29 + (t \div TicksPerDay))

\* new Date().getDate()
getDate(t) == DateOf(t).d

----------------------------------------------------------------------------
(* Formatter: file names *)

\* log-YYYY-MM-DD.txt
filename(t) == [y |-> DateOf(t).y, m |-> DateOf(t).m, d |-> DateOf(t).d, ext |-> "txt"]

\* log-YYYY-MM-DD.jsonl
jsonFilename(t) == [y |-> DateOf(t).y, m |-> DateOf(t).m, d |-> DateOf(t).d, ext |-> "jsonl"]

NoName == [y |-> 0, m |-> 0, d |-> 0, ext |-> ""]

\* the empty string a path field holds before any file is opened
EmptyPath == [dir |-> "", name |-> NoName]

\* path.resolve(directory, name)
resolve(dir, name) == [dir |-> dir, name |-> name]

----------------------------------------------------------------------------
(* The disk *)

NewFile == [mtime |-> 0, banners |-> 0, lines |-> 0, first |-> "none"]

\* fs.mkdirSync(dir, {recursive: true}); `fails` is the operating system's verdict
mkdirSync(d, dir, fails) ==
    IF fails THEN [ok |-> FALSE, disk |-> d, refused |-> TRUE]
    ELSE [ok |-> TRUE, disk |-> [d EXCEPT !.dirs = @ \cup {dir}], refused |-> FALSE]

\* fs.appendFileSync(path, data): creates the file when absent; data is a "banner" or a "line"
appendFileSync(d, path, kind, t, fails) ==
    IF fails \/ path.dir \notin d.dirs THEN [ok |-> FALSE, disk |-> d, refused |-> fails]
    ELSE LET old == IF path \in DOMAIN d.files THEN d.files[path] ELSE NewFile
             new == [mtime   |-> t,
                     banners |-> old.banners + (IF kind = "banner" THEN 1 ELSE 0),
                     lines   |-> old.lines + (IF kind = "line" THEN 1 ELSE 0),
                     first   |-> IF old.first = "none" THEN kind ELSE old.first]
         IN [ok |-> TRUE, refused |-> FALSE,
             disk |-> [d EXCEPT !.files = [p \in DOMAIN d.files \cup {path} |->
                                             IF p = path THEN new ELSE d.files[p]]]]

----------------------------------------------------------------------------
(* FileService *)

IOPoints == {"mkdirTxt", "appendTxt", "mkdirJson", "appendJson"}

\* One I/O call as the method made it: which method, which call, on what, whether it
\* succeeded, and whether the operating system refused it (it also fails when the
\* directory of the path does not exist).  The sequence of these is what a call did,
\* in order.
IO(method, point, target, kind, res) ==
    [m |-> method, pt |-> point, target |-> target, kind |-> kind, ok |-> res.ok,
     refused |-> res.refused]

\* the I/O points at which the calls of `io` were refused
Refused(io) == {io[i].pt : i \in {j \in 1..Len(io) : io[j].refused}}

\* What a try block has done so far: whether it is still running (no I/O call has
\* failed), the fields of the service, the disk, and the I/O calls made.
Try(s, d) == [ok |-> TRUE, svc |-> s, disk |-> d, io |-> <<>>]

\* The next I/O call of a try block, `res` being its outcome: a block that has failed
\* makes no further call, and a failing call leaves the block.
Then(r, method, point, target, kind, res) ==
    IF ~r.ok THEN r
    ELSE [ok |-> res.ok, svc |-> r.svc, disk |-> res.disk,
          io |-> Append(r.io, IO(method, point, target, kind, res))]

\* fs.mkdirSync(this.config.directory.txt, { recursive: true })
mkdirTxt(r, method, c, fail) ==
    Then(r, method, "mkdirTxt", resolve(c.directory.txt, NoName), "dir",
         mkdirSync(r.disk, c.directory.txt, "mkdirTxt" \in fail))

\* this._txtFilename = path.resolve(directory.txt, this.format.filename())
setTxtFilename(r, c, t) ==
    IF ~r.ok THEN r
    ELSE [r EXCEPT !.svc.txtFilename = resolve(c.directory.txt, filename(t))]

\* fs.appendFileSync(this._txtFilename, this.format.separator())
bannerTxt(r, method, t, fail) ==
    Then(r, method, "appendTxt", r.svc.txtFilename, "banner",
         appendFileSync(r.disk, r.svc.txtFilename, "banner", t, "appendTxt" \in fail))

\* fs.mkdirSync(this.config.directory.json, { recursive: true })
mkdirJson(r, method, c, fail) ==
    Then(r, method, "mkdirJson", resolve(c.directory.json, NoName), "dir",
         mkdirSync(r.disk, c.directory.json, "mkdirJson" \in fail))

\* this._jsonFilename = path.resolve(directory.json, this.format.jsonFilename())
setJsonFilename(r, c, t) ==
    IF ~r.ok THEN r
    ELSE [r EXCEPT !.svc.jsonFilename = resolve(c.directory.json, jsonFilename(t))]

\* fs.appendFileSync(this._jsonFilename, this.format.jsonSeparator())
bannerJson(r, method, t, fail) ==
    Then(r, method, "appendJson", r.svc.jsonFilename, "banner",
         appendFileSync(r.disk, r.svc.jsonFilename, "banner", t, "appendJson" \in fail))

\* if (this.config.json) { ... }: the JSON stream's directory, path and banner
openJson(r, method, c, t, fail) ==
    IF ~c.json THEN r
    ELSE bannerJson(setJsonFilename(mkdirJson(r, method, c, fail), c, t), method, t, fail)

\* The body of the try block shared by initialize() and verify(): make the text
\* directory, point txtFilename at today's file and append the banner; the same for
\* the JSON stream when config.json is set.  An I/O error leaves the block at once,
\* keeping what was assigned and written before it.  `fail` is the set of I/O points
\* at which the operating system refuses.
openStreams(method, s, c, d, t, fail) ==
    openJson(bannerTxt(setTxtFilename(mkdirTxt(Try(s, d), method, c, fail), c, t),
                       method, t, fail),
             method, c, t, fail)

\* The catch clause of initialize(): the error is logged, nothing is rethrown
initializeCatch(failed) ==
    [threw |-> FALSE, errors |-> IF failed THEN {"error initializing"} ELSE {}]

\* an initialize() that sets the flag whether or not its try block failed
initializeEndEager(r) ==
    [svc    |-> [r.svc EXCEPT !.initialized = TRUE],
     disk   |-> r.disk,
     io     |-> r.io,
     errors |-> initializeCatch(~r.ok).errors,
     threw  |-> initializeCatch(~r.ok).threw]

\* initialize() once its try block is over: `this._initialized = true` is the block's
\* last statement
initializeEnd(r) ==
    [svc    |-> IF r.ok THEN [r.svc EXCEPT !.initialized = TRUE] ELSE r.svc,
     disk   |-> r.disk,
     io     |-> r.io,
     errors |-> initializeCatch(~r.ok).errors,
     threw  |-> initializeCatch(~r.ok).threw]

\* an initialize() without the check of the initialized flag
initializeAgain(s, c, d, t, fail) ==
    initializeEnd(openStreams("initialize", [s EXCEPT !.currentDay = getDate(t)],
                              c, d, t, fail))

\* FileService.initialize()
initialize(s, c, d, t, fail) ==
    IF s.initialized
    THEN [svc |-> s, disk |-> d, io |-> <<>>, errors |-> {}, threw |-> FALSE]
    ELSE initializeEnd(openStreams("initialize", [s EXCEPT !.currentDay = getDate(t)],
                                   c, d, t, fail))

\* a catch clause that logs the error and throws it again
writeCatchRethrow(failed) ==
    [threw |-> failed, errors |-> IF failed THEN {"failed to write"} ELSE {}]

\* The catch clause of write()
writeCatch(failed) ==
    [threw |-> FALSE, errors |-> IF failed THEN {"failed to write"} ELSE {}]

\* fs.appendFileSync(this._txtFilename, line)
lineTxt(r, t, fail) ==
    Then(r, "write", "appendTxt", r.svc.txtFilename, "line",
         appendFileSync(r.disk, r.svc.txtFilename, "line", t, "appendTxt" \in fail))

\* if (this.config.json && json != undefined) fs.appendFileSync(this._jsonFilename, json),
\* in the try block of the text append and after it
lineJson(r, c, t, jsonGiven, fail) ==
    IF ~(c.json /\ jsonGiven) THEN r
    ELSE Then(r, "write", "appendJson", r.svc.jsonFilename, "line",
              appendFileSync(r.disk, r.svc.jsonFilename, "line", t, "appendJson" \in fail))

\* write() once its try block is over
writeEnd(r) ==
    [disk   |-> r.disk,
     io     |-> r.io,
     errors |-> writeCatch(~r.ok).errors,
     threw  |-> writeCatch(~r.ok).threw]

\* a write() whose try block appends the JSON line first
writeJsonFirst(s, c, d, t, jsonGiven, fail) ==
    IF ~s.initialized
    THEN [disk |-> d, io |-> <<>>, errors |-> {"not initialized"}, threw |-> FALSE]
    ELSE writeEnd(lineTxt(lineJson(Try(s, d), c, t, jsonGiven, fail), t, fail))

\* a write() without the check of the initialized flag
writeUnguarded(s, c, d, t, jsonGiven, fail) ==
    writeEnd(lineJson(lineTxt(Try(s, d), t, fail), c, t, jsonGiven, fail))

\* FileService.write(line, json): jsonGiven is `json != undefined`.  Both appends are
\* in one try block.
write(s, c, d, t, jsonGiven, fail) ==
    IF ~s.initialized
    THEN [disk |-> d, io |-> <<>>, errors |-> {"not initialized"}, threw |-> FALSE]
    ELSE writeEnd(lineJson(lineTxt(Try(s, d), t, fail), c, t, jsonGiven, fail))

\* A cleanup pass as rotate() leaves it at its first await: the readdir of the text
\* directory has been issued.
newRotate(c) ==
    [stream |-> "txt", pc |-> "readdir", dir |-> c.directory.txt, listing |-> {}, doomed |-> {}]

\* The catch clause of verify()
verifyCatch(failed) ==
    [threw |-> FALSE, errors |-> IF failed THEN {"error verifying"} ELSE {}]

\* a verify() whose failure clears the initialized flag
verifyEndResetting(r) ==
    [svc     |-> [r.svc EXCEPT !.initialized = r.ok],
     disk    |-> r.disk,
     io      |-> r.io,
     rotated |-> r.ok,
     errors  |-> verifyCatch(~r.ok).errors,
     threw   |-> verifyCatch(~r.ok).threw]

\* verify() once its try block is over: `this._initialized = true` and the call of
\* rotate() are the block's last statements; `rotated` says whether rotate() was
\* invoked.  _currentDay is not assigned.
verifyEnd(r) ==
    [svc     |-> IF r.ok THEN [r.svc EXCEPT !.initialized = TRUE] ELSE r.svc,
     disk    |-> r.disk,
     io      |-> r.io,
     rotated |-> r.ok,
     errors  |-> verifyCatch(~r.ok).errors,
     threw   |-> verifyCatch(~r.ok).threw]

\* a verify() that stores the day it read before it opens the streams
verifyStoring(s, c, d, t, fail) ==
    IF getDate(t) = s.currentDay
    THEN [svc |-> s, disk |-> d, io |-> <<>>, rotated |-> FALSE, errors |-> {}, threw |-> FALSE]
    ELSE verifyEnd(openStreams("verify", [s EXCEPT !.currentDay = getDate(t)], c, d, t, fail))

\* a verify() that does not compare the day it reads with the stored one
verifyAlways(s, c, d, t, fail) ==
    verifyEnd(openStreams("verify", s, c, d, t, fail))

\* a verify() keyed on the calendar date: it compares the name of today's text file
\* with the active one
verifyByDate(s, c, d, t, fail) ==
    IF resolve(c.directory.txt, filename(t)) = s.txtFilename
    THEN [svc |-> s, disk |-> d, io |-> <<>>, rotated |-> FALSE, errors |-> {}, threw |-> FALSE]
    ELSE verifyEnd(openStreams("verify", s, c, d, t, fail))

\* FileService.verify()
verify(s, c, d, t, fail) ==
    IF getDate(t) = s.currentDay
    THEN [svc |-> s, disk |-> d, io |-> <<>>, rotated |-> FALSE, errors |-> {}, threw |-> FALSE]
    ELSE verifyEnd(openStreams("verify", s, c, d, t, fail))

----------------------------------------------------------------------------
(* FileService.rotate(): the cleanup pass, one step per await *)

\* file.endsWith(".txt") / file.endsWith(".jsonl")
endsWith(name, stream) == name.ext = stream

\* a listing that keeps every entry of the directory, whatever its suffix
readdirAll(d, dir, stream) == {p \in DOMAIN d.files : p.dir = dir}

\* fsp.readdir(dir), filtered by the stream's suffix and joined to the directory
readdir(d, dir, stream) == {p \in DOMAIN d.files : p.dir = dir /\ endsWith(p.name, stream)}

\* the orders Array.sort((a, b) => b.mtime - a.mtime) can leave the files in: newest
\* first, files of equal mtime in the order readdir gave them (any order)
sortByMtime(S, d) ==
    {q \in [1..Cardinality(S) -> S] :
        /\ \A i, j \in 1..Cardinality(S) : i # j => q[i] # q[j]
        /\ \A i, j \in 1..Cardinality(S) : i < j => d.files[q[i]].mtime >= d.files[q[j]].mtime}

\* a slice taken from the wrong end: the newest files instead of the oldest
sliceNewest(q, n) == {q[i] : i \in 1..(Len(q) - n)}

\* a slice that starts one file late
sliceLate(q, n) == {q[i] : i \in (n + 2)..Len(q)}

\* logFiles.slice(n): the files behind the first n
slice(q, n) == {q[i] : i \in (n + 1)..Len(q)}

filecountOf(c, stream) == IF stream = "txt" THEN c.filecount.txt ELSE c.filecount.json

Done == [stream |-> "done", pc |-> "done", dir |-> "", listing |-> {}, doomed |-> {}]

\* what rotate() does once a stream's block is over: after the text block it reads
\* config.json and, when set, issues the readdir of the JSON directory
afterStream(task, c) ==
    IF task.stream = "txt" /\ c.json
    THEN [stream |-> "jsonl", pc |-> "readdir", dir |-> c.directory.json,
          listing |-> {}, doomed |-> {}]
    ELSE Done

\* The catch clause around the whole of rotate(): the pass ends, both streams
rotateCatch(task) == [task |-> Done, rejected |-> FALSE]

\* await fsp.readdir(dir) returns (or fails)
rotateReaddir(task, c, d, fails) ==
    IF fails \/ task.dir \notin d.dirs
    THEN [task |-> rotateCatch(task).task, disk |-> d, errors |-> {"cleanup failed"},
          removed |-> {}, rejected |-> rotateCatch(task).rejected]
    ELSE [task |-> [task EXCEPT !.pc = "stat", !.listing = readdir(d, task.dir, task.stream)],
          disk |-> d, errors |-> {}, removed |-> {}, rejected |-> FALSE]

\* await Promise.all(stats) returns (or one stat fails), then the sort and the slice
rotateStat(task, c, d, fails, order) ==
    IF fails \/ \E p \in task.listing : p \notin DOMAIN d.files
    THEN [task |-> rotateCatch(task).task, disk |-> d, errors |-> {"cleanup failed"},
          removed |-> {}, rejected |-> rotateCatch(task).rejected]
    ELSE IF Len(order) > filecountOf(c, task.stream)
    THEN [task |-> [task EXCEPT !.pc = "unlink",
                                !.doomed = slice(order, filecountOf(c, task.stream))],
          disk |-> d, errors |-> {}, removed |-> {}, rejected |-> FALSE]
    ELSE [task |-> afterStream(task, c), disk |-> d, errors |-> {}, removed |-> {},
          rejected |-> FALSE]

\* deletions made one after the other, the first failure ending them (the refused
\* file taken to come first)
rotateUnlinkSequential(task, c, d, bad) ==
    LET gone == IF bad # {} THEN {}
                ELSE {p \in task.doomed : p \in DOMAIN d.files}
    IN [task    |-> afterStream(task, c),
        disk    |-> [d EXCEPT !.files = [p \in DOMAIN d.files \ gone |-> d.files[p]]],
        errors  |-> IF gone # task.doomed THEN {"error deleting"} ELSE {},
        removed |-> gone, rejected |-> FALSE]

\* await Promise.allSettled(unlinks): each unlink has its own try/catch; `bad` are the
\* files the operating system refuses to delete
rotateUnlink(task, c, d, bad) ==
    LET gone == {p \in task.doomed : p \in DOMAIN d.files /\ p \notin bad}
    IN [task    |-> afterStream(task, c),
        disk    |-> [d EXCEPT !.files = [p \in DOMAIN d.files \ gone |-> d.files[p]]],
        errors  |-> IF gone # task.doomed THEN {"error deleting"} ELSE {},
        removed |-> gone, rejected |-> FALSE]

----------------------------------------------------------------------------
(* EmailService *)

\* EmailService.initialize(), run by the constructor: `createFails` is
\* nodemailer.createTransport throwing
emailInitialize(c, createFails) ==
    IF c.smtp = <<>> THEN [transporter |-> FALSE, ready |-> FALSE, lastEmailSent |-> 0]
    ELSE IF createFails THEN [transporter |-> FALSE, ready |-> FALSE, lastEmailSent |-> 0]
    ELSE [transporter |-> TRUE, ready |-> TRUE, lastEmailSent |-> 0]

\* a throttle that lets a call through one tick early
throttledEarly(t, last, throttle) == t - last + 1 < throttle

\* a throttle that still holds a call back when exactly the interval has elapsed
throttledLate(t, last, throttle) == t - last <= throttle

\* now - this.lastEmailSent < this.config.throttle
throttled(t, last, throttle) == t - last < throttle

\* a sendErrorNotification that has not recorded the time of the attempt when it
\* reaches its await
sendErrorNotificationUnrecorded(m, c, t) ==
    IF ~m.transporter \/ c.smtp = <<>>
    THEN [mail |-> m, sent |-> FALSE, errors |-> {"email service not initialized"}]
    ELSE IF throttled(t, m.lastEmailSent, c.throttle)
    THEN [mail |-> m, sent |-> FALSE, errors |-> {}]
    ELSE [mail |-> m, sent |-> TRUE, errors |-> {}]

\* a sendErrorNotification that looks at the smtp settings only, not at the
\* transporter its constructor made
sendErrorNotificationLazy(m, c, t) ==
    IF c.smtp = <<>>
    THEN [mail |-> m, sent |-> FALSE, errors |-> {"email service not initialized"}]
    ELSE IF throttled(t, m.lastEmailSent, c.throttle)
    THEN [mail |-> m, sent |-> FALSE, errors |-> {}]
    ELSE [mail |-> [m EXCEPT !.lastEmailSent = t], sent |-> TRUE, errors |-> {}]

\* a sendErrorNotification whose throttled calls restart the interval
sendErrorNotificationExtending(m, c, t) ==
    IF ~m.transporter \/ c.smtp = <<>>
    THEN [mail |-> m, sent |-> FALSE, errors |-> {"email service not initialized"}]
    ELSE IF throttled(t, m.lastEmailSent, c.throttle)
    THEN [mail |-> [m EXCEPT !.lastEmailSent = t], sent |-> FALSE, errors |-> {}]
    ELSE [mail |-> [m EXCEPT !.lastEmailSent = t], sent |-> TRUE, errors |-> {}]

\* EmailService.sendErrorNotification, up to its await: `sent` says whether
\* transporter.sendMail was invoked
sendErrorNotification(m, c, t) ==
    IF ~m.transporter \/ c.smtp = <<>>
    THEN [mail |-> m, sent |-> FALSE, errors |-> {"email service not initialized"}]
    ELSE IF throttled(t, m.lastEmailSent, c.throttle)
    THEN [mail |-> m, sent |-> FALSE, errors |-> {}]
    ELSE [mail |-> [m EXCEPT !.lastEmailSent = t], sent |-> TRUE, errors |-> {}]

\* The catch clause around `await this.transporter.sendMail(...)`
sendMailCatch(failed) ==
    [rejected |-> FALSE, errors |-> IF failed THEN {"failed to send error message"} ELSE {}]

\* an await that forgets the time of the attempt when the transport rejects
afterSendMailReset(m, ok) ==
    [mail |-> IF ok THEN m ELSE [m EXCEPT !.lastEmailSent = 0], retry |-> FALSE,
     rejected |-> sendMailCatch(~ok).rejected, errors |-> sendMailCatch(~ok).errors]

\* an await that calls sendMail again when the transport rejects
afterSendMailRetry(m, ok) ==
    [mail |-> m, retry |-> ~ok, rejected |-> sendMailCatch(~ok).rejected,
     errors |-> sendMailCatch(~ok).errors]

\* sendErrorNotification after its await: the delivery is logged, sent or failed;
\* lastEmailSent stays and sendMail is not called again
afterSendMail(m, ok) ==
    [mail |-> m, retry |-> FALSE, rejected |-> sendMailCatch(~ok).rejected,
     errors |-> sendMailCatch(~ok).errors]

----------------------------------------------------------------------------
(* VLoggo: the facade *)

Levels == {"INFO", "WARN", "DEBUG", "ERROR", "FATAL"}

\* the console channel of the mirror
channel(level) ==
    IF level \in {"INFO", "DEBUG"} THEN "info"
    ELSE IF level = "WARN" THEN "warn" ELSE "error"

\* log() from its write() on: `v` is what verify() returned and `w` what write() did;
\* then the mirror on the console.  `calls` is the sequence of the calls log() made.
logWritten(v, w, c, level) ==
    [svc |-> v.svc, disk |-> w.disk, io |-> v.io \o w.io, rotated |-> v.rotated,
     errors |-> v.errors \cup w.errors, threw |-> w.threw,
     console |-> IF ~w.threw /\ c.console THEN channel(level) ELSE "none",
     calls |-> IF ~w.threw /\ c.console THEN <<"verify", "write", "mirror">>
               ELSE <<"verify", "write">>]

\* a log() that hands write() the text line only
logVerifiedTextOnly(v, c, t, level, failW) ==
    IF v.threw
    THEN [svc |-> v.svc, disk |-> v.disk, io |-> v.io, rotated |-> v.rotated,
          errors |-> v.errors, threw |-> TRUE, console |-> "none", calls |-> <<"verify">>]
    ELSE logWritten(v, write(v.svc, c, v.disk, t, FALSE, failW), c, level)

\* log() from its verify() on: `v` is what verify() returned
logVerified(v, c, t, level, failW) ==
    IF v.threw
    THEN [svc |-> v.svc, disk |-> v.disk, io |-> v.io, rotated |-> v.rotated,
          errors |-> v.errors, threw |-> TRUE, console |-> "none", calls |-> <<"verify">>]
    ELSE logWritten(v, write(v.svc, c, v.disk, t, c.json, failW), c, level)

\* a log() without the check of the engine's initialized flag
logUnguarded(s, c, d, t, level, failV, failW) ==
    logVerified(verify(s, c, d, t, failV), c, t, level, failW)

\* a log() that writes the entry before it runs verify()
logWriteFirst(s, c, d, t, level, failV, failW) ==
    IF ~s.initialized
    THEN [svc |-> s, disk |-> d, io |-> <<>>, rotated |-> FALSE,
          errors |-> {"not initialized > skipping log"}, threw |-> FALSE, console |-> "none",
          calls |-> <<>>]
    ELSE LET w == write(s, c, d, t, c.json, failW)
             v == verify(s, c, w.disk, t, failV)
         IN [svc |-> v.svc, disk |-> v.disk, io |-> w.io \o v.io, rotated |-> v.rotated,
             errors |-> v.errors \cup w.errors, threw |-> FALSE,
             console |-> IF c.console THEN channel(level) ELSE "none",
             calls |-> IF c.console THEN <<"write", "verify", "mirror">>
                       ELSE <<"write", "verify">>]

\* VLoggo.log(level, code, message): failV and failW are the I/O points refusing
\* during verify() and during write()
log(s, c, d, t, level, failV, failW) ==
    IF ~s.initialized
    THEN [svc |-> s, disk |-> d, io |-> <<>>, rotated |-> FALSE,
          errors |-> {"not initialized > skipping log"}, threw |-> FALSE, console |-> "none",
          calls |-> <<>>]
    ELSE logVerified(verify(s, c, d, t, failV), c, t, level, failW)

\* VLoggo.fatal(code, text), after its log("FATAL", ...) returned: the alert
\* `called` says whether sendErrorNotification was invoked
fatalAlert(m, c, t) ==
    IF ~m.ready THEN [mail |-> m, sent |-> FALSE, errors |-> {}, called |-> FALSE]
    ELSE [mail   |-> sendErrorNotification(m, c, t).mail,
          sent   |-> sendErrorNotification(m, c, t).sent,
          errors |-> sendErrorNotification(m, c, t).errors,
          called |-> TRUE]

\* a public method that alerts whatever its severity
alertAlways(level, m, c, t) == fatalAlert(m, c, t)

\* What the public method of a severity does with the notifier once log() has
\* returned: info, warn, debug and error do nothing, fatal alerts.
alert(level, m, c, t) ==
    IF level = "FATAL" THEN fatalAlert(m, c, t)
    ELSE [mail |-> m, sent |-> FALSE, errors |-> {}, called |-> FALSE]

----------------------------------------------------------------------------
(* Config.  An options argument is a record of the properties it provides.  The   *)
(* filecount and directory of a Config are objects it holds by reference: `heap`  *)
(* is the sequence of the objects created so far, a reference is an index of it.  *)
(* process.env holds none of CLIENT_NAME and SMTP_*.                              *)

\* options.k !== undefined
has(o, k) == k \in DOMAIN o

\* { ...a, ...b }
spread(a, b) == [k \in DOMAIN a \cup DOMAIN b |-> IF k \in DOMAIN b THEN b[k] ELSE a[k]]

\* path.resolve(os.homedir(), client, leaf)
homePath(client, leaf) == <<"~", client, leaf>>

\* the empty string, as a path
NoPath == <<>>

\* The objects that exist once the module is loaded: defaultConfig.filecount and
\* defaultConfig.directory
heap0 == <<[txt |-> 31, json |-> 31],
           [txt |-> homePath("VLoggo", "logs"), json |-> homePath("VLoggo", "json")]>>

\* export const defaultConfig; its smtp is undefined
defaultConfig ==
    [client |-> "VLoggo", json |-> FALSE, debug |-> FALSE, console |-> TRUE,
     filecount |-> 1, directory |-> 2, throttle |-> 30000, notify |-> FALSE]

\* An object literal given for the property k of an argument: the object is created
\* and the argument holds a reference to it.
literal(r, k) ==
    IF ~has(r.options, k) THEN r
    ELSE [heap    |-> Append(r.heap, r.options[k]),
          options |-> spread(r.options, [x \in {k} |-> Len(r.heap) + 1])]

literals(h, o) == literal(literal([heap |-> h, options |-> o], "filecount"), "directory")

\* the Config under construction once `_client` is assigned: the filecount object
\* given, or a new { txt: 31, json: 31 }
newFilecount(h, o) ==
    IF has(o, "filecount") THEN [heap |-> h, filecount |-> o.filecount]
    ELSE [heap |-> Append(h, [txt |-> 31, json |-> 31]), filecount |-> Len(h) + 1]

\* the directory object given, or a new one under <home>/<client>
newDirectory(r, o, client) ==
    IF has(o, "directory")
    THEN [heap |-> r.heap, filecount |-> r.filecount, directory |-> o.directory]
    ELSE [heap |-> Append(r.heap, [txt |-> homePath(client, "logs"),
                                   json |-> homePath(client, "json")]),
          filecount |-> r.filecount, directory |-> Len(r.heap) + 1]

\* The fields of the new Config.  `smtp` is <<>> when undefined and <<the settings>>
\* otherwise.  notify is true with options.smtp; without it loadSMTPFromEnv() finds
\* no settings and turns notify off.
newFields(r, o, client) ==
    [heap   |-> r.heap,
     config |-> [client    |-> client,
                 json      |-> IF has(o, "json") THEN o.json ELSE FALSE,
                 debug     |-> IF has(o, "debug") THEN o.debug ELSE FALSE,
                 console   |-> IF has(o, "console") THEN o.console ELSE TRUE,
                 filecount |-> r.filecount,
                 directory |-> r.directory,
                 notify    |-> has(o, "smtp"),
                 throttle  |-> IF has(o, "throttle") THEN o.throttle ELSE 30000,
                 smtp      |-> IF has(o, "smtp") THEN <<o.smtp>> ELSE <<>>]]

\* options?.client || process.env.CLIENT_NAME || "VLoggo"
clientOf(o) == IF has(o, "client") /\ o.client # "" THEN o.client ELSE "VLoggo"

\* new Config(options)
Config(h, o) == newFields(newDirectory(newFilecount(h, o), o, clientOf(o)), o, clientOf(o))

\* new Config({ ...defaultConfig, ...options }), as the constructor of VLoggo makes it
vloggoConfig(h, o) == Config(h, spread(defaultConfig, o))

\* `this._k = options.k` when `provided`
set(c, o, k, provided) == IF provided THEN spread(c, [x \in {k} |-> o[k]]) ELSE c

\* this._smtp = { ...this._smtp, ...options.smtp } when options.smtp is given
mergeSmtp(c, o) ==
    IF ~has(o, "smtp") THEN c
    ELSE [c EXCEPT !.smtp = <<spread(IF @ = <<>> THEN <<>> ELSE @[1], o.smtp)>>]

\* Config.update, the properties held by value; a number or a string is assigned
\* when it is truthy, a boolean when it is not undefined
updateFields(c, o) ==
    mergeSmtp(
      set(set(set(set(set(set(c, o, "client", has(o, "client") /\ o.client # ""),
                          o, "json", has(o, "json")),
                      o, "debug", has(o, "debug")),
                  o, "console", has(o, "console")),
              o, "notify", has(o, "notify")),
          o, "throttle", has(o, "throttle") /\ o.throttle # 0),
      o)

\* Config.update, the filecount object: if (options.filecount.txt) ..., if (....json) ...
updateFilecount(fc, o) ==
    [txt  |-> IF has(o, "txt") /\ o.txt # 0 THEN o.txt ELSE fc.txt,
     json |-> IF has(o, "json") /\ o.json # 0 THEN o.json ELSE fc.json]

\* Config.update, the directory object
updateDirectory(dir, o) ==
    [txt  |-> IF has(o, "txt") /\ o.txt # NoPath THEN o.txt ELSE dir.txt,
     json |-> IF has(o, "json") /\ o.json # NoPath THEN o.json ELSE dir.json]

\* the objects after Config.update: the Config's own filecount and directory objects
\* are assigned to in place
updateObjects(h, c, o) ==
    [i \in 1..Len(h) |->
        IF i = c.filecount /\ has(o, "filecount") THEN updateFilecount(h[i], o.filecount)
        ELSE IF i = c.directory /\ has(o, "directory") THEN updateDirectory(h[i], o.directory)
        ELSE h[i]]

\* Config.update(options)
update(h, c, o) == [heap |-> updateObjects(h, c, o), config |-> updateFields(c, o)]

\* the argument clone() gives to the constructor: each override, or else the field
cloneOptions(c, o) ==
    spread([k \in DOMAIN c \ {"smtp"} |-> c[k]],
           spread(IF c.smtp = <<>> THEN <<>> ELSE [smtp |-> c.smtp[1]], o))

\* Config.clone(overrides)
clone(h, c, o) == Config(h, cloneOptions(c, o))

\* what the getters of a Config return
read(h, c) == [c EXCEPT !.filecount = h[c.filecount], !.directory = h[c.directory]]

----------------------------------------------------------------------------
(* The state after construction *)

\* the default directories: <home>/<client>/logs and <home>/<client>/json
DirTxt == "logs"
DirJson == "json"

NoDate == [y |-> 0, m |-> 0, d |-> 0]

\* the fields of a FileService as its declaration initialises them
svc0 == [txtFilename |-> EmptyPath, jsonFilename |-> EmptyPath, currentDay |-> 0,
         initialized |-> FALSE]

mail0 == [transporter |-> FALSE, ready |-> FALSE, lastEmailSent |-> 0]

\* what the last call did; `pre`, `mailPre` and `prevRotatedOn` are the state it started from
NoObs == [op |-> "none", level |-> "none", at |-> 0, pre |-> svc0, mailPre |-> mail0,
          prevRotatedOn |-> NoDate, jsonGiven |-> FALSE, io |-> <<>>, errors |-> {},
          threw |-> FALSE, rotated |-> FALSE, sent |-> FALSE, console |-> "none",
          task |-> Done, next |-> Done, removed |-> {}, unhandled |-> FALSE,
          options |-> <<>>, inst |-> 0, refused |-> {}, calls |-> <<>>]

Obs(op) == [NoObs EXCEPT !.op = op, !.at = now, !.pre = svc, !.mailPre = mail,
                         !.prevRotatedOn = rotatedOn]

\* the first tick of each day that ended before the program starts: the days old log
\* files are of
OldDays == {t \in 0..StartNow : t % TicksPerDay = 0 /\ t + TicksPerDay <= StartNow}

\* Log files of earlier runs, each last modified at some earlier tick: the text files
\* in the text directory and, when the JSON stream is on, their JSON twins.
OldDisk(c, days, mt) ==
    LET txt == {resolve(c.directory.txt, filename(t)) : t \in days}
        jsn == IF c.json THEN {resolve(c.directory.json, jsonFilename(t)) : t \in days} ELSE {}
        mtimeOf(p) == mt[CHOOSE t \in days : filename(t).d = p.name.d]
    IN [dirs  |-> {p.dir : p \in txt \cup jsn},
        files |-> [p \in txt \cup jsn |->
                     [mtime |-> mtimeOf(p), banners |-> 1, lines |-> 1, first |-> "banner"]]]

\* the old files' mtimes: against the order of their names, or all equal
OldMtimes == {[t \in OldDays |-> StartNow - 1 - t], [t \in OldDays |-> 0]}

InitDisks(c) == {OldDisk(c, days, mt) : days \in {{}, OldDays}, mt \in OldMtimes}

\* the smtp settings a notifier is constructed with, when it has any
SmtpSettings == [host |-> "h", to |-> "t"]

\* The configurations tried: `smtps` says whether smtp settings are given; smtp is
\* <<>> when undefined and <<the settings>> otherwise.
Configs(jsons, smtps, throttles) ==
    {[json |-> j, console |-> TRUE, filecount |-> [txt |-> FilecountTxt, json |-> FilecountJson],
      directory |-> [txt |-> DirTxt, json |-> DirJson],
      smtp |-> IF sm THEN <<SmtpSettings>> ELSE <<>>, throttle |-> th] :
        j \in jsons, sm \in smtps, th \in throttles}

TypeOK ==
    /\ now \in Nat /\ steps \in 0..MaxSteps /\ faults \in 0..MaxFaults
    /\ svc.initialized \in BOOLEAN /\ svc.currentDay \in 0..31
    /\ Len(tasks) <= MaxTasks
    /\ mail.ready \in BOOLEAN /\ mail.lastEmailSent \in Nat

----------------------------------------------------------------------------
(* The clock *)

\* time passes: a tick, or a month of idling
Advance ==
    /\ steps < MaxSteps
    /\ \E k \in {1, IdleDays * TicksPerDay} : now' = now + k
    /\ steps' = steps + 1
    /\ UNCHANGED <<faults, cfg, svc, disk, tasks, mail, deliveries, rotatedOn, obs, confs, heap>>

----------------------------------------------------------------------------
(* The retention engine called directly *)

InitEngine ==
    /\ confs = <<>> /\ heap = heap0
    /\ now = StartNow /\ steps = 0 /\ faults = EngineFaults
    /\ cfg \in Configs(BOOLEAN, {FALSE}, {0})
    /\ svc = svc0
    /\ disk \in InitDisks(cfg)
    /\ tasks = <<>>
    /\ mail = emailInitialize(cfg, FALSE)
    /\ deliveries = <<>>
    /\ rotatedOn = NoDate
    /\ obs = NoObs

\* The operating system refuses at the points of `fail`, all of which the call
\* reached (`hit`): a refusal at a point the call never reaches changes nothing.
\* `faults` is the number of I/O calls the system may still refuse.
Fault(fail, hit) ==
    /\ fail = hit
    /\ Cardinality(fail) <= faults
    /\ faults' = faults - Cardinality(fail)

\* the sets of points of P the fault budget still allows the system to refuse at
Refusable(P) == {f \in SUBSET P : Cardinality(f) <= faults}

\* the same for a synchronous method, which its first refused I/O call ends: it
\* meets one refusal at most
FirstRefusal(P) == {f \in Refusable(P) : Cardinality(f) <= 1}

Initialize ==
    /\ steps < MaxSteps
    /\ \E fail \in FirstRefusal(IOPoints) :
         \E r \in {initialize(svc, cfg, disk, now, fail)} :
            /\ Fault(fail, Refused(r.io))
            /\ svc' = r.svc
            /\ disk' = r.disk
            /\ obs' = [Obs("initialize") EXCEPT !.io = r.io, !.errors = r.errors,
                                                !.threw = r.threw]
    /\ steps' = steps + 1
    /\ UNCHANGED <<now, cfg, tasks, mail, deliveries, rotatedOn, confs, heap>>

Verify ==
    /\ steps < MaxSteps
    /\ \E fail \in FirstRefusal(IOPoints) :
         \E r \in {verify(svc, cfg, disk, now, fail)} :
            /\ Fault(fail, Refused(r.io))
            /\ r.rotated => Len(tasks) < MaxTasks
            /\ svc' = r.svc
            /\ disk' = r.disk
            /\ tasks' = IF r.rotated THEN Append(tasks, newRotate(cfg)) ELSE tasks
            /\ rotatedOn' = IF r.rotated THEN DateOf(now) ELSE rotatedOn
            /\ obs' = [Obs("verify") EXCEPT !.io = r.io, !.errors = r.errors,
                                            !.threw = r.threw, !.rotated = r.rotated]
    /\ steps' = steps + 1
    /\ UNCHANGED <<now, cfg, mail, deliveries, confs, heap>>

Write ==
    /\ steps < MaxSteps
    /\ \E jsonGiven \in BOOLEAN, fail \in FirstRefusal({"appendTxt", "appendJson"}) :
         \E r \in {write(svc, cfg, disk, now, jsonGiven, fail)} :
            /\ Fault(fail, Refused(r.io))
            /\ disk' = r.disk
            /\ obs' = [Obs("write") EXCEPT !.io = r.io, !.errors = r.errors,
                                           !.threw = r.threw, !.jsonGiven = jsonGiven]
    /\ steps' = steps + 1
    /\ UNCHANGED <<now, cfg, svc, tasks, mail, deliveries, rotatedOn, confs, heap>>

\* the tasks with the i-th replaced by what it became, or dropped when the pass is over
Settle(i, task) ==
    IF task = Done THEN SubSeq(tasks, 1, i - 1) \o SubSeq(tasks, i + 1, Len(tasks))
    ELSE [tasks EXCEPT ![i] = task]

\* A step of the i-th cleanup pass.  The steps that sort and delete are observed: the
\* pass before the step, the pass after it, the files the step deleted and those the
\* operating system refused to delete.
RotateStep(i, r, fail) ==
    /\ Fault(fail, fail)
    /\ tasks' = Settle(i, r.task)
    /\ disk' = r.disk
    /\ obs' = IF tasks[i].pc = "readdir"
              THEN [obs EXCEPT !.unhandled = @ \/ r.rejected]
              ELSE [Obs(tasks[i].pc) EXCEPT !.task = tasks[i], !.next = r.task,
                                            !.errors = r.errors, !.removed = r.removed,
                                            !.unhandled = r.rejected,
                                            !.refused = IF tasks[i].pc = "unlink" THEN fail
                                                        ELSE {}]
    /\ UNCHANGED <<now, steps, cfg, svc, mail, deliveries, rotatedOn, confs, heap>>

RotateReaddir ==
    \E i \in 1..Len(tasks) :
        /\ tasks[i].pc = "readdir"
        /\ \E fails \in BOOLEAN :
             RotateStep(i, rotateReaddir(tasks[i], cfg, disk, fails),
                        IF fails THEN {"readdir"} ELSE {})

RotateStat ==
    \E i \in 1..Len(tasks) :
        /\ tasks[i].pc = "stat"
        /\ \/ RotateStep(i, rotateStat(tasks[i], cfg, disk, TRUE, <<>>), {"stat"})
           \/ /\ tasks[i].listing \subseteq DOMAIN disk.files
              /\ \E order \in sortByMtime(tasks[i].listing, disk) :
                   RotateStep(i, rotateStat(tasks[i], cfg, disk, FALSE, order), {})
           \/ /\ ~(tasks[i].listing \subseteq DOMAIN disk.files)
              /\ RotateStep(i, rotateStat(tasks[i], cfg, disk, FALSE, <<>>), {})

RotateUnlink ==
    \E i \in 1..Len(tasks) :
        /\ tasks[i].pc = "unlink"
        /\ \E bad \in Refusable(tasks[i].doomed \cap DOMAIN disk.files) :
             RotateStep(i, rotateUnlink(tasks[i], cfg, disk, bad), bad)

NextEngine ==
    \/ Advance
    \/ Initialize
    \/ Verify
    \/ Write
    \/ RotateReaddir
    \/ RotateStat
    \/ RotateUnlink

SpecEngine == InitEngine /\ [][NextEngine]_vars

----------------------------------------------------------------------------
(* The retention engine with both streams configured with one directory, which   *)
(* also holds a file that is not a log file                                       *)

\* a file of another suffix, older than every log file
Foreign == resolve(DirTxt, [y |-> 2024, m |-> 12, d |-> 1, ext |-> "bak"])

\* the disk `d` with the log directory and the foreign file in it
WithForeign(d) ==
    [dirs  |-> d.dirs \cup {DirTxt},
     files |-> [p \in DOMAIN d.files \cup {Foreign} |->
                  IF p = Foreign THEN [NewFile EXCEPT !.lines = 1, !.first = "line"]
                  ELSE d.files[p]]]

InitShared ==
    /\ confs = <<>> /\ heap = heap0
    /\ now = StartNow /\ steps = 0 /\ faults = EngineFaults
    /\ cfg \in {[c EXCEPT !.directory.json = DirTxt] : c \in Configs({TRUE}, {FALSE}, {0})}
    /\ svc = svc0
    /\ disk \in {WithForeign(d) : d \in InitDisks(cfg)}
    /\ tasks = <<>>
    /\ mail = emailInitialize(cfg, FALSE)
    /\ deliveries = <<>>
    /\ rotatedOn = NoDate
    /\ obs = NoObs

SpecShared == InitShared /\ [][NextEngine]_vars

----------------------------------------------------------------------------
(* The retention engine of a logger whose configuration is updated while it runs *)

\* the arguments of config.update tried on a running engine: the JSON stream is
\* switched on or off
EngineUpdates == {[json |-> j] : j \in BOOLEAN}

\* logger.config.update(options): the engine reads the Config it was constructed
\* with at every call, and is not told of the update
UpdateConfig ==
    /\ steps < MaxSteps
    /\ \E o \in EngineUpdates :
          /\ cfg' = updateFields(cfg, o)
          /\ obs' = [Obs("update") EXCEPT !.options = o]
    /\ steps' = steps + 1
    /\ UNCHANGED <<now, faults, svc, disk, tasks, mail, deliveries, rotatedOn, confs, heap>>

NextConfigured ==
    \/ NextEngine
    \/ UpdateConfig

SpecConfigured == InitEngine /\ [][NextConfigured]_vars

----------------------------------------------------------------------------
(* Deliveries: the sendMail calls made, each pending until the transport answers *)

\* a sendMail whose answer the caller waits for before it returns
DeliveryAwaited(t, handled) == [at |-> t, state |-> "sent", handled |-> handled]

Delivery(t, handled) == [at |-> t, state |-> "pending", handled |-> handled]

\* the transport answers the i-th sendMail: the await in sendErrorNotification returns
\* or throws into its catch clause
Delivered ==
    \E i \in 1..Len(deliveries), ok \in BOOLEAN :
        /\ deliveries[i].state = "pending"
        /\ Fault(IF ok THEN {} ELSE {"sendMail"}, IF ok THEN {} ELSE {"sendMail"})
        /\ \E r \in {afterSendMail(mail, ok)},
              settled \in {[deliveries EXCEPT ![i].state = IF ok THEN "sent" ELSE "failed"]} :
              /\ mail' = r.mail
              /\ deliveries' = IF r.retry
                               THEN Append(settled, Delivery(now, deliveries[i].handled))
                               ELSE settled
              /\ obs' = [obs EXCEPT !.unhandled = @ \/ (r.rejected /\ ~deliveries[i].handled)]
        /\ UNCHANGED <<now, steps, cfg, svc, disk, tasks, rotatedOn, confs, heap>>

----------------------------------------------------------------------------
(* The notifier called directly *)

EmptyDisk == [dirs |-> {}, files |-> [p \in {} |-> NewFile]]

InitNotifier ==
    /\ confs = <<>> /\ heap = heap0
    /\ now = StartNow /\ steps = 0 /\ faults = MaxFaults
    /\ cfg \in Configs({FALSE}, BOOLEAN, 0..MaxThrottle)
    /\ svc = svc0
    /\ disk = EmptyDisk
    /\ tasks = <<>>
    /\ mail \in {emailInitialize(cfg, createFails) : createFails \in BOOLEAN}
    /\ deliveries = <<>>
    /\ rotatedOn = NoDate
    /\ obs = NoObs

SendAlert ==
    /\ steps < MaxSteps
    /\ \E r \in {sendErrorNotification(mail, cfg, now)} :
          /\ mail' = r.mail
          /\ deliveries' = IF r.sent THEN Append(deliveries, Delivery(now, FALSE)) ELSE deliveries
          /\ obs' = [Obs("sendAlert") EXCEPT !.sent = r.sent, !.errors = r.errors]
    /\ steps' = steps + 1
    /\ UNCHANGED <<now, faults, cfg, svc, disk, tasks, rotatedOn, confs, heap>>

NextNotifier ==
    \/ Advance
    \/ SendAlert
    \/ Delivered

SpecNotifier == InitNotifier /\ [][NextNotifier]_vars

----------------------------------------------------------------------------
(* The notifier of a logger whose smtp settings are updated while it runs *)

\* the arguments of config.update tried on a running notifier: smtp settings, in
\* part or whole
NotifierUpdates == {[smtp |-> [host |-> "h2"]], [smtp |-> SmtpSettings]}

\* logger.config.update(options): the notifier reads the Config it was constructed
\* with at every call, and is not told of the update
UpdateSmtp ==
    /\ steps < MaxSteps
    /\ \E o \in NotifierUpdates :
          /\ cfg' = updateFields(cfg, o)
          /\ obs' = [Obs("update") EXCEPT !.options = o]
    /\ steps' = steps + 1
    /\ UNCHANGED <<now, faults, svc, disk, tasks, mail, deliveries, rotatedOn, confs, heap>>

NextReconfigured ==
    \/ NextNotifier
    \/ UpdateSmtp

SpecReconfigured == InitNotifier /\ [][NextReconfigured]_vars

----------------------------------------------------------------------------
(* The facade: a VLoggo instance *)

\* new VLoggo(options): the Config, the three services, then fileService.initialize().
\* The construction is the first event of the behaviour.
Init ==
    /\ confs = <<>> /\ heap = heap0
    /\ now = StartNow /\ steps = 1
    /\ cfg \in Configs(BOOLEAN, BOOLEAN, {1})
    /\ tasks = <<>>
    /\ mail \in {emailInitialize(cfg, createFails) : createFails \in BOOLEAN}
    /\ deliveries = <<>>
    /\ rotatedOn = NoDate
    /\ \E d0 \in InitDisks(cfg), fail \in {f \in SUBSET IOPoints : Cardinality(f) <= 1} :
         \E r \in {initialize(svc0, cfg, d0, now, fail)} :
            /\ fail = Refused(r.io)
            /\ faults = MaxFaults - Cardinality(fail)
            /\ svc = r.svc
            /\ disk = r.disk
            /\ obs = [NoObs EXCEPT !.op = "construct", !.at = now, !.io = r.io,
                                   !.errors = r.errors, !.threw = r.threw]

\* The operating system refuses at the points failV during verify() and failW during
\* write(), all of which the call reached.
LogFault(io, failV, failW) ==
    /\ failV = Refused(SelectSeq(io, LAMBDA e : e.m = "verify"))
    /\ failW = Refused(SelectSeq(io, LAMBDA e : e.m = "write"))
    /\ Cardinality(failV) + Cardinality(failW) <= faults
    /\ faults' = faults - Cardinality(failV) - Cardinality(failW)

\* logger.info / warn / debug / error
Log ==
    /\ steps < MaxSteps
    /\ \E failV \in FirstRefusal(IOPoints), failW \in FirstRefusal({"appendTxt", "appendJson"}),
          level \in Levels \ {"FATAL"} :
         \E r \in {log(svc, cfg, disk, now, level, failV, failW)} :
         \E a \in {IF r.threw THEN [mail |-> mail, sent |-> FALSE, errors |-> {},
                                     called |-> FALSE]
                   ELSE alert(level, mail, cfg, now)} :
            /\ LogFault(r.io, failV, failW)
            /\ r.rotated => Len(tasks) < MaxTasks
            /\ svc' = r.svc
            /\ disk' = r.disk
            /\ tasks' = IF r.rotated THEN Append(tasks, newRotate(cfg)) ELSE tasks
            /\ rotatedOn' = IF r.rotated THEN DateOf(now) ELSE rotatedOn
            /\ mail' = a.mail
            /\ deliveries' = IF a.sent THEN Append(deliveries, Delivery(now, TRUE))
                             ELSE deliveries
            /\ obs' = [Obs("log") EXCEPT !.level = level, !.io = r.io,
                                         !.errors = r.errors \cup a.errors,
                                         !.threw = r.threw, !.rotated = r.rotated,
                                         !.console = r.console, !.jsonGiven = cfg.json,
                                         !.sent = a.sent,
                                         !.calls = IF a.called
                                                   THEN Append(r.calls, "sendAlert")
                                                   ELSE r.calls]
    /\ steps' = steps + 1
    /\ UNCHANGED <<now, cfg, confs, heap>>

\* logger.fatal: log("FATAL", ...), then the alert unless the notifier is not ready
Fatal ==
    /\ steps < MaxSteps
    /\ \E failV \in FirstRefusal(IOPoints), failW \in FirstRefusal({"appendTxt", "appendJson"}) :
         \E r \in {log(svc, cfg, disk, now, "FATAL", failV, failW)} :
         \E a \in {IF r.threw THEN [mail |-> mail, sent |-> FALSE, errors |-> {},
                                     called |-> FALSE]
                   ELSE alert("FATAL", mail, cfg, now)} :
            /\ LogFault(r.io, failV, failW)
            /\ r.rotated => Len(tasks) < MaxTasks
            /\ svc' = r.svc
            /\ disk' = r.disk
            /\ tasks' = IF r.rotated THEN Append(tasks, newRotate(cfg)) ELSE tasks
            /\ rotatedOn' = IF r.rotated THEN DateOf(now) ELSE rotatedOn
            /\ mail' = a.mail
            /\ deliveries' = IF a.sent THEN Append(deliveries, Delivery(now, TRUE))
                             ELSE deliveries
            /\ obs' = [Obs("log") EXCEPT !.level = "FATAL", !.io = r.io,
                                         !.errors = r.errors \cup a.errors,
                                         !.threw = r.threw, !.rotated = r.rotated,
                                         !.console = r.console, !.jsonGiven = cfg.json,
                                         !.sent = a.sent,
                                         !.calls = IF a.called
                                                   THEN Append(r.calls, "sendAlert")
                                                   ELSE r.calls]
    /\ steps' = steps + 1
    /\ UNCHANGED <<now, cfg, confs, heap>>

Next ==
    \/ Advance
    \/ Log
    \/ Fatal
    \/ RotateReaddir
    \/ RotateStat
    \/ RotateUnlink
    \/ Delivered

Spec == Init /\ [][Next]_vars

----------------------------------------------------------------------------
(* Config instances: those the constructor of VLoggo makes, and their clones *)

\* the properties K of the record f
Pick(f, K) == [k \in K |-> f[k]]

\* the arguments of new VLoggo(options) tried
ConstructOptions ==
    {Pick(f, K) :
       f \in [client : {"A", "B"},
              filecount : {[txt |-> FilecountTxt, json |-> FilecountJson]},
              directory : {[txt |-> <<"d", "logs">>, json |-> <<"d", "json">>]},
              smtp : {[host |-> "h", to |-> "t"]}],
       K \in SUBSET {"client", "filecount", "directory", "smtp"}}

\* the arguments of update(options) tried: up to MaxProvided properties, the values
\* 0 and "" among them, the filecount, directory and smtp given in part
UpdateOptions ==
    {Pick(f, K) :
       f \in [client : {"B", ""}, json : BOOLEAN, debug : {TRUE}, console : {FALSE},
              notify : {TRUE}, throttle : {0, 7},
              filecount : {[txt |-> 0], [txt |-> 5, json |-> 0]},
              directory : {[txt |-> <<"e", "logs">>], [txt |-> NoPath, json |-> <<"e", "json">>]},
              smtp : {[host |-> "h2"]}],
       K \in {L \in SUBSET {"client", "json", "debug", "console", "notify", "throttle",
                            "filecount", "directory", "smtp"} :
                Cardinality(L) \in 1..MaxProvided}}

\* the arguments of clone(overrides) tried
CloneOverrides ==
    {Pick(f, K) :
       f \in [client : {"B"}, filecount : {[txt |-> 3, json |-> 3]},
              directory : {[txt |-> <<"c", "logs">>, json |-> <<"c", "json">>]}],
       K \in {L \in SUBSET {"client", "filecount", "directory"} : Cardinality(L) <= 1}}

\* The module is loaded: defaultConfig exists, no Config has been constructed.
InitConfig ==
    /\ confs = <<>> /\ heap = heap0
    /\ now = StartNow /\ steps = 0 /\ faults = 0
    /\ cfg \in Configs({FALSE}, {FALSE}, {0})
    /\ svc = svc0
    /\ disk = EmptyDisk
    /\ tasks = <<>>
    /\ mail = mail0
    /\ deliveries = <<>>
    /\ rotatedOn = NoDate
    /\ obs = NoObs

\* a call on the Configs: which one, with what argument, on or making which instance
ConfigCall(op, o, i) == [Obs(op) EXCEPT !.options = o, !.inst = i]

\* this._config = new Config({ ...defaultConfig, ...options }) of new VLoggo(options)
NewConfig ==
    /\ steps < MaxConfigCalls /\ Len(confs) < MaxConfigs
    /\ \E o \in ConstructOptions :
         \E l \in {literals(heap, o)} :
         \E r \in {vloggoConfig(l.heap, l.options)} :
            /\ confs' = Append(confs, [by |-> "VLoggo", options |-> o, config |-> r.config])
            /\ heap' = r.heap
            /\ obs' = ConfigCall("new", o, Len(confs) + 1)
    /\ steps' = steps + 1
    /\ UNCHANGED <<now, faults, cfg, svc, disk, tasks, mail, deliveries, rotatedOn>>

\* config.update(options) on the i-th Config
Update ==
    /\ steps < MaxConfigCalls
    /\ \E i \in 1..Len(confs), o \in UpdateOptions :
         \E r \in {update(heap, confs[i].config, o)} :
            /\ confs' = [confs EXCEPT ![i].config = r.config]
            /\ heap' = r.heap
            /\ obs' = ConfigCall("update", o, i)
    /\ steps' = steps + 1
    /\ UNCHANGED <<now, faults, cfg, svc, disk, tasks, mail, deliveries, rotatedOn>>

\* config.clone(overrides) of the i-th Config
Clone ==
    /\ steps < MaxConfigCalls /\ Len(confs) < MaxConfigs
    /\ \E i \in 1..Len(confs), o \in CloneOverrides :
         \E l \in {literals(heap, o)} :
         \E r \in {clone(l.heap, confs[i].config, l.options)} :
            /\ confs' = Append(confs, [by |-> "clone", options |-> o, config |-> r.config])
            /\ heap' = r.heap
            /\ obs' = ConfigCall("clone", o, Len(confs) + 1)
    /\ steps' = steps + 1
    /\ UNCHANGED <<now, faults, cfg, svc, disk, tasks, mail, deliveries, rotatedOn>>

NextConfig ==
    \/ NewConfig
    \/ Update
    \/ Clone

SpecConfig == InitConfig /\ [][NextConfig]_vars

----------------------------------------------------------------------------
(* Claims about the notifier, checked where it is called directly (SpecNotifier) *)

\* the last call was sendErrorNotification
AlertCall == obs.op = "sendAlert"

\* the time elapsed, at the last call, since the attempt recorded before it
Elapsed == obs.at - obs.mailPre.lastEmailSent

\* the last call passed the readiness check and the throttle check
Passes == obs.mailPre.transporter /\ cfg.smtp # <<>> /\ Elapsed >= cfg.throttle

\* C3. Throttle safety: with a fixed throttle interval, any two delivery attempts of
\* one notifier are at least the interval apart, so that two calls closer than the
\* interval make only one attempt.
C3_ThrottleSafety ==
    \A i, j \in 1..Len(deliveries) :
        i < j => deliveries[j].at - deliveries[i].at >= cfg.throttle

\* two attempts exactly the interval apart
C3_Witness ==
    /\ Len(deliveries) >= 2 /\ cfg.throttle > 0
    /\ deliveries[2].at - deliveries[1].at = cfg.throttle

\* C8. A failed delivery still counts against the throttle: the time of the last
\* attempt stays recorded when the transport rejects the message, and a call made
\* less than the interval after a failed attempt makes no attempt of its own.
C8_FailedDeliveryCounts ==
    /\ deliveries # <<>> => mail.lastEmailSent = deliveries[Len(deliveries)].at
    /\ \A i \in 1..Len(deliveries) :
          (/\ AlertCall
           /\ deliveries[i].state = "failed"
           /\ ~(obs.sent /\ i = Len(deliveries))
           /\ obs.at - deliveries[i].at < cfg.throttle) => ~obs.sent

\* a call suppressed within the interval after the one attempt made, which failed
C8_Witness ==
    /\ AlertCall /\ obs.mailPre.ready /\ ~obs.sent
    /\ Len(deliveries) = 1 /\ deliveries[1].state = "failed"
    /\ obs.at - deliveries[1].at < cfg.throttle

\* C9. A call that passes the readiness and throttle checks makes exactly one
\* delivery attempt, any other call makes none, and no attempt is made outside a
\* call: a rejected delivery is never retried.
C9_OneAttemptPerCall ==
    [][/\ (steps' = steps + 1 /\ now' = now /\ obs'.op = "sendAlert") =>
            Len(deliveries') = Len(deliveries) +
               (IF /\ mail.transporter /\ cfg.smtp # <<>>
                   /\ now - mail.lastEmailSent >= cfg.throttle THEN 1 ELSE 0)
       /\ (steps' = steps \/ now' # now) => Len(deliveries') = Len(deliveries)]_vars

\* a passing call whose one attempt was rejected, and nothing sent since
C9_Witness ==
    /\ AlertCall /\ Passes /\ obs.sent
    /\ Len(deliveries) = 1 /\ deliveries[1].state = "failed"

\* C10. No over-suppression: a call on a ready notifier made when at least the
\* interval has elapsed since the last attempt makes an attempt; so does the first
\* call of a new instance.
C10_NoOverSuppression ==
    (AlertCall /\ obs.mailPre.ready /\ Elapsed >= cfg.throttle) => obs.sent

\* a second attempt, made exactly the interval after the first
C10_Witness ==
    /\ AlertCall /\ obs.sent /\ obs.mailPre.ready
    /\ obs.mailPre.lastEmailSent > 0 /\ cfg.throttle > 0
    /\ Elapsed = cfg.throttle

\* the deliveries in flight that the last call did not start
InFlight ==
    {i \in 1..Len(deliveries) :
        deliveries[i].state = "pending" /\ ~(obs.sent /\ i = Len(deliveries))}

\* C24. Overlapping alerts are throttled: the time of an attempt is recorded before
\* the delivery is awaited, so a call that arrives while an earlier delivery is
\* still in flight, less than the interval after it, makes no attempt.
C24_OverlappingAlertsThrottled ==
    AlertCall =>
        /\ \A i \in InFlight : obs.at - deliveries[i].at < cfg.throttle => ~obs.sent
        /\ obs.sent => mail.lastEmailSent = obs.at

\* a call suppressed a tick after the one attempt made, whose delivery is still in
\* flight
C24_Witness ==
    /\ AlertCall /\ obs.mailPre.ready /\ ~obs.sent
    /\ Len(deliveries) = 1 /\ deliveries[1].state = "pending"
    /\ obs.at > deliveries[1].at
    /\ obs.at - deliveries[1].at < cfg.throttle

\* C25. Notifier readiness is fixed at construction: ready never changes
\* afterwards, so a notifier built without smtp settings, or whose transport
\* construction failed, stays not ready, also when smtp settings are supplied
\* later through Config.update; and a notifier that is not ready never makes a
\* delivery attempt.
C25_ReadinessFixed ==
    [][/\ mail'.ready = mail.ready
       /\ mail'.transporter = mail.transporter
       /\ ~mail.ready => (deliveries' = deliveries /\ ~obs'.sent)]_vars

\* a call on a notifier built without smtp settings, made after update() supplied
\* the host alone; the notifier is not ready and no attempt was ever made
C25_Witness ==
    /\ AlertCall /\ ~mail.ready /\ obs.at - obs.mailPre.lastEmailSent >= cfg.throttle
    /\ cfg.smtp = <<[host |-> "h2"]>>
    /\ deliveries = <<>>

\* the step is a call of sendErrorNotification
AlertStep == steps' = steps + 1 /\ now' = now /\ obs'.op = "sendAlert"

\* a call made now is suppressed: the notifier is not ready, or less than the
\* interval has elapsed since the last attempt
Suppressed == ~mail.ready \/ now - mail.lastEmailSent < cfg.throttle

\* C26. A suppressed call (notifier not ready, or elapsed < throttle) leaves the
\* time of the last attempt unchanged and its alert is never delivered later:
\* suppressed calls do not extend the throttle window, and nothing is queued, a
\* later call that passes making the one attempt of its own.
C26_SuppressedCallLeavesNoTrace ==
    [][/\ (AlertStep /\ Suppressed) =>
            mail' = mail /\ deliveries' = deliveries /\ ~obs'.sent
       /\ (AlertStep /\ ~Suppressed) =>
            deliveries' = Append(deliveries, Delivery(now, FALSE))
       /\ ~AlertStep => Len(deliveries') = Len(deliveries)]_vars

\* a call suppressed after the interval had started, and a time of last attempt
\* that is still that of the attempt
C26_Witness ==
    /\ AlertCall /\ ~obs.sent /\ obs.mailPre.ready
    /\ obs.mailPre.lastEmailSent > 0 /\ obs.at > obs.mailPre.lastEmailSent
    /\ mail.lastEmailSent = obs.mailPre.lastEmailSent
    /\ Len(deliveries) = 1

----------------------------------------------------------------------------
(* Claims about the retention engine, checked where it is called directly (SpecEngine) *)

\* C1. Rotation happens exactly once per day boundary: once a verify() has created
\* the active file of a day and invoked rotate(), every later verify() on that same
\* day creates nothing and does not invoke rotate().
C1_RotationOncePerDay ==
    (/\ obs.op = "verify"
     /\ obs.pre.currentDay # 0
     /\ obs.prevRotatedOn = DateOf(obs.at)) => (~obs.rotated /\ obs.io = <<>>)

\* a write() of an initialized engine that was given a JSON line, JSON being enabled
JsonWrite == obs.op = "write" /\ obs.pre.initialized /\ cfg.json /\ obs.jsonGiven

\* C2. Stream isolation in write(), in both directions: with JSON enabled and the
\* engine initialized, write() attempts the text append and the JSON append whatever
\* the outcome of the other, a text line appended stays appended, and write() does
\* not throw.
C2_StreamIsolation ==
    JsonWrite =>
        /\ ~obs.threw
        /\ \E i \in 1..Len(obs.io) : obs.io[i].pt = "appendTxt"
        /\ \E i \in 1..Len(obs.io) : obs.io[i].pt = "appendJson"
        /\ \A i \in 1..Len(obs.io) :
              obs.io[i].ok => /\ obs.io[i].target \in DOMAIN disk.files
                              /\ disk.files[obs.io[i].target].lines >= 1

\* the last step was the stat-and-sort of a cleanup pass, or its deletions
StatStep == obs.op = "stat"
UnlinkStep == obs.op = "unlink"

\* the cap of the stream the observed pass was cleaning, and the files it kept
CapOf(task) == filecountOf(cfg, task.stream)
Kept(task) == task.listing \ task.doomed

StreamFiles(stream) ==
    readdir(disk, IF stream = "txt" THEN cfg.directory.txt ELSE cfg.directory.json, stream)

EnabledStreams == IF cfg.json THEN {"txt", "jsonl"} ELSE {"txt"}

\* C7, as stated. At any moment of an initialized engine, for each enabled stream,
\* the files of the stream's suffix in its directory number at most the cap.
C7_NeverExceedsCap ==
    svc.initialized =>
        \A stream \in EnabledStreams :
            Cardinality(StreamFiles(stream)) <= filecountOf(cfg, stream)

\* C7, amended. Right after a cleanup pass has deleted a stream's surplus with no
\* deletion failing, at most cap of the files the pass had listed are left in the
\* stream's directory.
C7_CapAfterCleanup ==
    (UnlinkStep /\ obs.errors = {}) =>
        Cardinality(StreamFiles(obs.task.stream) \cap obs.task.listing) <= CapOf(obs.task)

\* such a pass, leaving the directory with more files than the cap: a file was
\* created after the pass listed the directory
C7_Witness ==
    /\ UnlinkStep /\ obs.errors = {} /\ obs.removed # {}
    /\ Cardinality(StreamFiles(obs.task.stream)) > CapOf(obs.task)

\* the step is a call of write()
WriteStep == steps' = steps + 1 /\ now' = now /\ obs'.op = "write"

\* the lines of the file at path p, none when there is no such file
LinesOf(d, p) == IF p \in DOMAIN d.files THEN d.files[p].lines ELSE 0

\* C11. write() called while initialized is false creates no file, modifies no file,
\* changes no engine state and does not throw; the lines are dropped, not queued: a
\* later write() appends its own line only.
C11_DroppedWhenNotInitialized ==
    [][WriteStep =>
         /\ ~svc.initialized =>
               /\ disk' = disk /\ svc' = svc /\ tasks' = tasks
               /\ obs'.io = <<>> /\ ~obs'.threw
         /\ \A p \in DOMAIN disk'.files : LinesOf(disk', p) <= LinesOf(disk, p) + 1]_vars

\* a write() with a JSON line on an engine whose initialize() had failed after it
\* assigned the text path, old log files being on the disk
C11_Witness ==
    /\ obs.op = "write" /\ ~obs.pre.initialized /\ obs.jsonGiven
    /\ obs.pre.txtFilename # EmptyPath
    /\ DOMAIN disk.files # {}

\* the step is a call of initialize()
InitializeStep == steps' = steps + 1 /\ now' = now /\ obs'.op = "initialize"

\* the last call was an initialize() that succeeded
Initialized == obs.op = "initialize" /\ ~obs.pre.initialized /\ svc.initialized

\* the I/O points the streams in use pass through
PointsOf(c) == IF c.json THEN IOPoints ELSE {"mkdirTxt", "appendTxt"}

\* how many calls of `io` were made at the I/O point pt
CallsAt(io, pt) == Cardinality({i \in 1..Len(io) : io[i].pt = pt})

\* C12. initialize() is idempotent: a call on an initialized engine leaves the
\* active paths, currentDayOfMonth, the initialized flag and all files unchanged,
\* and two calls in succession, the first succeeding, make between them one
\* directory creation and one banner per enabled stream.
C12_InitializeIdempotent ==
    [][InitializeStep =>
         /\ svc.initialized =>
               /\ svc' = svc /\ disk' = disk /\ tasks' = tasks
               /\ obs'.io = <<>> /\ ~obs'.threw
         /\ Initialized =>
               /\ \A pt \in PointsOf(cfg) : CallsAt(obs.io \o obs'.io, pt) = 1
               /\ \A pt \in IOPoints \ PointsOf(cfg) : CallsAt(obs.io \o obs'.io, pt) = 0]_vars

\* a second initialize() of an engine with both streams, old log files on the disk
C12_Witness ==
    /\ obs.op = "initialize" /\ obs.pre.initialized /\ cfg.json
    /\ obs.pre.currentDay = getDate(obs.at)
    /\ Cardinality(DOMAIN disk.files) > 2
    /\ disk.files[svc.txtFilename].banners = 1 /\ disk.files[svc.jsonFilename].banners = 1

\* every I/O call the last call made succeeded
NoIOFailure == \A i \in 1..Len(obs.io) : obs.io[i].ok

\* C16. After every verify() that completes without I/O failure, the stored
\* currentDayOfMonth equals the calendar day-of-month that verify() observed: a
\* verify() that detects a day change and succeeds stores the new day.
C16_CurrentDayTracksVerify ==
    (obs.op = "verify" /\ NoIOFailure /\ obs.errors = {}) =>
        svc.currentDay = getDate(obs.at)

\* p is the path of a file that exists and holds a banner
ActiveFile(p) ==
    p # EmptyPath /\ p \in DOMAIN disk.files /\ disk.files[p].banners >= 1

\* C17. In every reachable state, after any sequence of initialize, verify, write,
\* cleanup passes and configuration updates, initialized implies that the active
\* path of every enabled stream is non-empty and names a file that exists and
\* contains at least one banner.  (Checked under SpecConfigured.)
C17_ActiveFilesExist ==
    svc.initialized =>
        /\ ActiveFile(svc.txtFilename)
        /\ cfg.json => ActiveFile(svc.jsonFilename)

\* C18. Cleanup stream isolation: with JSON enabled, a directory-listing or stat
\* failure while cleaning the text stream ends only the text stream's part of the
\* pass, and the pass goes on to clean the JSON stream: a pass ends in its JSON
\* part, never in its text part.
C18_CleanupStreamIsolation ==
    [][(cfg.json /\ Len(tasks') < Len(tasks)) =>
          \E i \in 1..Len(tasks) :
              tasks[i].stream = "jsonl" /\ tasks' = Settle(i, Done)]_vars

\* the I/O points of the calls of `io`, in order
Points(io) == [i \in 1..Len(io) |-> io[i].pt]

\* the I/O calls of a whole initialize(), in order
WholeSequence(c) ==
    IF c.json THEN <<"mkdirTxt", "appendTxt", "mkdirJson", "appendJson">>
    ELSE <<"mkdirTxt", "appendTxt">>

\* C20. If any I/O step of initialize() fails (text directory, text banner, JSON
\* directory or JSON banner), initialize() does not throw and initialized remains
\* false; a later initialize() attempts the whole sequence again, from its first
\* step, and sets initialized when every step succeeds.
C20_InitializeFailsSoftly ==
    (obs.op = "initialize" /\ ~obs.pre.initialized) =>
        /\ ~obs.threw
        /\ svc.initialized = NoIOFailure
        /\ ~NoIOFailure => obs.errors # {}
        /\ \E k \in 1..Len(WholeSequence(cfg)) :
              Points(obs.io) = SubSeq(WholeSequence(cfg), 1, k)
        /\ NoIOFailure => Points(obs.io) = WholeSequence(cfg)

\* an initialize() of both streams that succeeds after an earlier one had assigned
\* the text path and then failed
C20_Witness ==
    /\ obs.op = "initialize" /\ ~obs.pre.initialized /\ svc.initialized /\ cfg.json
    /\ obs.pre.currentDay # 0 /\ obs.pre.txtFilename # EmptyPath
    /\ Len(obs.io) = 4

\* the step is a call of verify()
VerifyStep == steps' = steps + 1 /\ now' = now /\ obs'.op = "verify"

\* C21. If the synchronous part of verify() fails (the directory or the banner of
\* either stream), currentDayOfMonth is not updated and rotate() is not invoked,
\* and the next verify() on the same day attempts the same rotation again, from
\* its first step, invoking rotate() when it succeeds.
C21_FailedVerifyRetries ==
    [][VerifyStep =>
         /\ ~NoIOFailure' =>
               /\ svc'.currentDay = svc.currentDay
               /\ ~obs'.rotated /\ tasks' = tasks
         /\ (obs.op = "verify" /\ ~NoIOFailure /\ DateOf(now) = DateOf(obs.at)) =>
               /\ obs'.io # <<>> /\ obs'.io[1].pt = "mkdirTxt"
               /\ NoIOFailure' => obs'.rotated]_vars

\* a verify() that succeeds and invokes rotate() after the one refusal of the
\* behaviour was met by an earlier verify() of the same day, which had assigned
\* the day's text path before it failed
C21_Witness ==
    /\ obs.op = "verify" /\ obs.rotated /\ faults = 0
    /\ ~obs.pre.initialized /\ obs.pre.currentDay = 0
    /\ obs.pre.txtFilename = resolve(cfg.directory.txt, filename(obs.at))

\* C28. verify() called when the calendar day-of-month equals the stored
\* currentDayOfMonth is a pure no-op: it creates no directory, appends to no file,
\* invokes no rotate(), reports nothing, and leaves the active paths,
\* currentDayOfMonth, initialized and the files unchanged.
C28_SameDayVerifyIsNoOp ==
    [][(VerifyStep /\ getDate(now) = svc.currentDay) =>
         /\ obs'.io = <<>> /\ ~obs'.rotated /\ obs'.errors = {} /\ ~obs'.threw
         /\ svc' = svc /\ disk' = disk /\ tasks' = tasks
         /\ rotatedOn' = rotatedOn /\ faults' = faults]_vars

\* a verify() of an initialized service on the day of its initialize(), the system
\* still having a refusal in hand
C28_Witness ==
    /\ obs.op = "verify" /\ getDate(obs.at) = obs.pre.currentDay
    /\ obs.pre.initialized /\ svc = obs.pre /\ obs.io = <<>> /\ faults > 0

\* the file is in the directory of the pass and carries the suffix of its stream
OwnFile(task, p) == p.dir = task.dir /\ p.name.ext = task.stream

\* C35. Cleanup deletes only files that are in the stream's own directory and
\* carry the stream's suffix: a pass lists, counts and dooms no other file, files
\* of any other suffix are never deleted, also when both streams are configured
\* with the same directory.
C35_CleanupKeepsToSuffix ==
    /\ Foreign \in DOMAIN disk.files
    /\ \A i \in 1..Len(tasks) :
          \A p \in tasks[i].listing \cup tasks[i].doomed : OwnFile(tasks[i], p)
    /\ UnlinkStep => \A p \in obs.removed : OwnFile(obs.task, p)
    /\ (StatStep /\ obs.errors = {}) =>
          Cardinality(obs.next.doomed) =
             IF Cardinality(obs.task.listing) > CapOf(obs.task)
             THEN Cardinality(obs.task.listing) - CapOf(obs.task) ELSE 0

\* in the one directory of both streams, the JSON part of a pass deleted a .jsonl
\* file and left more text files than the JSON cap, and the file of another suffix
C35_Witness ==
    /\ cfg.directory.json = cfg.directory.txt
    /\ UnlinkStep /\ obs.task.stream = "jsonl" /\ obs.removed # {}
    /\ Cardinality(readdir(disk, DirTxt, "txt")) >= 1
    /\ Cardinality({p \in DOMAIN disk.files : p.dir = DirTxt}) > FilecountJson + 1
    /\ Foreign \in DOMAIN disk.files

\* C37. If the synchronous part of verify() fails at any step, both active file
\* paths keep the values they had before the call, so later writes of both
\* streams continue to go to the previously active files (stated for an engine
\* that is initialized, which has active files).
C37_FailedVerifyKeepsPaths ==
    [][(VerifyStep /\ svc.initialized /\ ~NoIOFailure') =>
          /\ svc'.txtFilename = svc.txtFilename
          /\ svc'.jsonFilename = svc.jsonFilename]_vars

\* the calendar date a log file is named for
NameDate(p) == [y |-> p.name.y, m |-> p.name.m, d |-> p.name.d]

\* C38. With JSON enabled from construction, in every reachable state where
\* initialized is true the active text file and the active JSON file are named
\* for the same calendar date, including after verify() calls that fail part-way.
C38_SameDateBothStreams ==
    (cfg.json /\ svc.initialized) =>
        NameDate(svc.txtFilename) = NameDate(svc.jsonFilename)

\* C39. The initialized flag is monotone: once it is true no operation (a failed
\* verify, a failed write, a cleanup step, a configuration update) sets it back to
\* false, so after a failed rotation a write() still attempts its append instead
\* of dropping the entry.
C39_InitializedMonotone ==
    [][/\ svc.initialized => svc'.initialized
       /\ (WriteStep /\ obs.op = "verify" /\ obs.pre.initialized /\ ~NoIOFailure) =>
             /\ obs'.io # <<>> /\ obs'.io[1].pt = "appendTxt"
             /\ obs'.errors # {"not initialized"}]_vars

\* a write() made after a verify() of the day had failed at its banner: the engine
\* is still initialized and the entry begins the file the banner was refused to
C39_Witness ==
    /\ obs.op = "write" /\ svc.initialized /\ faults = 0
    /\ NameDate(svc.txtFilename) = DateOf(obs.at)
    /\ svc.txtFilename \in DOMAIN disk.files
    /\ disk.files[svc.txtFilename].first = "line"

\* C27. Independent deletions: within one stream's cleanup pass, the failure to
\* delete one file beyond the cap does not stop the deletion of the others; every
\* one of them is attempted, so that the only doomed files left are those whose
\* deletion was refused.
C27_IndependentDeletions ==
    UnlinkStep =>
        /\ obs.task.doomed \cap DOMAIN disk.files \subseteq obs.refused
        /\ obs.removed \subseteq obs.task.doomed
        /\ obs.removed \cap obs.refused = {}
        /\ obs.refused # {} => obs.errors # {}

\* a pass with two files beyond the cap: the deletion of one was refused, the
\* other was deleted
C27_Witness ==
    /\ UnlinkStep /\ Cardinality(obs.task.doomed) = 2
    /\ Cardinality(obs.refused) = 1 /\ Cardinality(obs.removed) = 1

----------------------------------------------------------------------------
(* Claims about a VLoggo instance (Spec) *)

\* the last call was info / warn / debug / error / fatal
LogCall == obs.op = "log"

\* the I/O calls the last call made in verify() and in write()
VerifyIO == SelectSeq(obs.io, LAMBDA e : e.m = "verify")
WriteIO == SelectSeq(obs.io, LAMBDA e : e.m = "write")

\* C5. No failure escapes a logging call: whatever the severity and whichever I/O
\* calls fail, the constructor and info/warn/debug/error/fatal return without
\* throwing, and no failure of a cleanup pass or of a delivery becomes an unhandled
\* rejection.
C5_NoFailureEscapes == ~obs.threw /\ ~obs.unhandled

\* a fatal() during which an I/O call of verify() and the append of write() both failed
C5_Witness ==
    /\ LogCall /\ obs.level = "FATAL"
    /\ Refused(VerifyIO) # {} /\ Refused(WriteIO) # {}

\* C6. The active file tracks the calendar day: a logging call of an initialized
\* instance that completes without I/O failure appends its entry to the file named
\* for the calendar date of the call, in each enabled stream, and that file is the
\* stream's active file.
C6_ActiveFileTracksDay ==
    (LogCall /\ obs.pre.initialized /\ \A i \in 1..Len(obs.io) : obs.io[i].ok) =>
        /\ svc.txtFilename = resolve(cfg.directory.txt, filename(obs.at))
        /\ \E i \in 1..Len(WriteIO) :
              /\ WriteIO[i].pt = "appendTxt"
              /\ WriteIO[i].target = resolve(cfg.directory.txt, filename(obs.at))
        /\ cfg.json =>
              /\ svc.jsonFilename = resolve(cfg.directory.json, jsonFilename(obs.at))
              /\ \E i \in 1..Len(WriteIO) :
                    /\ WriteIO[i].pt = "appendJson"
                    /\ WriteIO[i].target = resolve(cfg.directory.json, jsonFilename(obs.at))

\* the step is a call of info / warn / debug / error / fatal
LogStep == steps' = steps + 1 /\ now' = now /\ obs'.op = "log"

\* C13. Alerts are sent only for fatal logs: info, warn, debug and error calls never
\* invoke the notifier, a fatal call invokes it at most once, and no delivery
\* attempt is made outside a fatal call.
C13_AlertsOnlyForFatal ==
    [][/\ (LogStep /\ obs'.level # "FATAL") =>
             deliveries' = deliveries /\ mail' = mail /\ ~obs'.sent
       /\ Len(deliveries') <= Len(deliveries) + 1
       /\ Len(deliveries') > Len(deliveries) => (LogStep /\ obs'.level = "FATAL")]_vars

\* an error() on a ready notifier, made after a fatal() had alerted and when the
\* throttle interval has elapsed since: a fatal() in its place would alert
C13_Witness ==
    /\ LogCall /\ obs.level = "ERROR" /\ obs.mailPre.ready /\ cfg.smtp # <<>>
    /\ Len(deliveries) = 1
    /\ obs.at - obs.mailPre.lastEmailSent >= cfg.throttle

\* C19. After an initialization failure the engine recovers by a rotation-triggered
\* retry: a logging call made after the day-of-month has changed runs verify(),
\* which re-creates the active files; when no I/O call of it is refused the engine
\* is initialized and the entry of that call is written.
C19_RecoversOnDayChange ==
    (/\ LogCall /\ ~obs.pre.initialized
     /\ obs.pre.currentDay # getDate(obs.at)
     /\ Refused(obs.io) = {}) =>
        /\ VerifyIO # <<>>
        /\ svc.initialized
        /\ \E i \in 1..Len(WriteIO) : WriteIO[i].pt = "appendTxt" /\ WriteIO[i].ok

\* C22. A logging call of any severity made while the retention engine is not
\* initialized drops the entry: it runs no verify(), appends to no file, mirrors
\* nothing on the console but the error message, and leaves the engine's state
\* unchanged.
C22_DroppedWhenEngineNotInitialized ==
    [][(LogStep /\ ~svc.initialized) =>
          /\ svc' = svc /\ disk' = disk /\ tasks' = tasks /\ rotatedOn' = rotatedOn
          /\ obs'.io = <<>> /\ ~obs'.rotated /\ ~obs'.threw
          /\ obs'.console = "none"
          /\ "not initialized > skipping log" \in obs'.errors]_vars

\* a warn() of a logger whose construction failed, made on a later day, old log
\* files being on the disk
C22_Witness ==
    /\ LogCall /\ obs.level = "WARN" /\ ~obs.pre.initialized
    /\ obs.pre.currentDay # getDate(obs.at)
    /\ DOMAIN disk.files # {}

\* the calls of `io` append the banner to the file `path` in verify() and, after it,
\* the entry to the same file in write()
EntryAfterBanner(io, path, pt) ==
    \E i, j \in 1..Len(io) :
        /\ i < j
        /\ io[i].m = "verify" /\ io[i].pt = pt /\ io[i].kind = "banner"
        /\ io[i].target = path /\ io[i].ok
        /\ io[j].m = "write" /\ io[j].pt = pt /\ io[j].kind = "line"
        /\ io[j].target = path

\* the file `path` holds a banner and one entry more than before the step
EntryLanded(path) ==
    /\ path \in DOMAIN disk'.files
    /\ disk'.files[path].banners >= 1
    /\ disk'.files[path].lines = LinesOf(disk, path) + 1
    /\ path \notin DOMAIN disk.files => disk'.files[path].first = "banner"

\* C29. In a logging call that detects a day change and whose file creation
\* succeeds, the entry is appended to the new day's file, after that file's banner
\* (in each enabled stream, and unless the append of the entry is itself refused),
\* and the call returns without waiting for the cleanup pass it triggered: when it
\* returns the pass is at its first await and has deleted nothing.  Logging calls
\* do not wait for the passes under way either, which complete at any point
\* relative to them.
C29_EntryInNewFileCleanupNotAwaited ==
    [][/\ (LogStep /\ obs'.rotated) =>
             /\ svc.currentDay # getDate(now)
             /\ svc'.txtFilename = resolve(cfg.directory.txt, filename(now))
             /\ EntryAfterBanner(obs'.io, svc'.txtFilename, "appendTxt")
             /\ "appendTxt" \notin Refused(WriteIO') => EntryLanded(svc'.txtFilename)
             /\ (cfg.json /\ "appendTxt" \notin Refused(WriteIO')) =>
                   /\ svc'.jsonFilename = resolve(cfg.directory.json, jsonFilename(now))
                   /\ EntryAfterBanner(obs'.io, svc'.jsonFilename, "appendJson")
                   /\ Refused(WriteIO') = {} => EntryLanded(svc'.jsonFilename)
             /\ tasks' = Append(tasks, newRotate(cfg))
             /\ DOMAIN disk.files \subseteq DOMAIN disk'.files
       /\ LogStep => SubSeq(tasks', 1, Len(tasks)) = tasks]_vars

\* a logging call of the day after the construction, made while the cleanup pass an
\* earlier call of that day triggered is about to delete: both entries are in the
\* new day's file, which began with its banner
C29_Witness ==
    /\ LogCall /\ obs.rotated /\ obs.pre.currentDay # getDate(obs.at)
    /\ Len(tasks) = 2 /\ tasks[1].pc = "unlink" /\ tasks[2] = newRotate(cfg)
    /\ svc.txtFilename \in DOMAIN disk.files
    /\ disk.files[svc.txtFilename].first = "banner"
    /\ disk.files[svc.txtFilename].lines = 2

\* C30. A banner is appended to a stream's file only when that file becomes the
\* active file (at initialize, or at the first verify() after a day change): a
\* logging call made on the same calendar day as the previous logging call, which
\* met no I/O failure, appends no banner.
C30_NoBannerOnSameDay ==
    [][(/\ LogStep
        /\ obs.op = "log" /\ obs.pre.initialized
        /\ \A i \in 1..Len(obs.io) : obs.io[i].ok
        /\ DateOf(obs.at) = DateOf(now)) =>
          \A i \in 1..Len(obs'.io) : obs'.io[i].kind # "banner"]_vars

\* the positions of the call `name` in the sequence of the calls the last logging
\* call made
At(name) == {i \in 1..Len(obs.calls) : obs.calls[i] = name}

\* C31. Per-call ordering in the facade on an initialized engine: verify() runs
\* before write(), and every I/O call of verify() precedes every I/O call of
\* write(); within write() the text line is appended before the JSON line; the
\* console mirror and, for fatal, the invocation of the notifier happen only after
\* write() has returned, the mirror first.
C31_PerCallOrdering ==
    (LogCall /\ obs.pre.initialized) =>
        /\ Len(obs.calls) >= 2 /\ obs.calls[1] = "verify" /\ obs.calls[2] = "write"
        /\ \A i \in At("mirror") \cup At("sendAlert") : i > 2
        /\ \A i \in At("mirror"), j \in At("sendAlert") : i < j
        /\ \A i, j \in 1..Len(obs.io) :
              (obs.io[i].m = "verify" /\ obs.io[j].m = "write") => i < j
        /\ \A i, j \in 1..Len(WriteIO) :
              (WriteIO[i].pt = "appendTxt" /\ WriteIO[j].pt = "appendJson") => i < j
        /\ (cfg.json /\ WriteIO # <<>>) => WriteIO[1].pt = "appendTxt"

\* a fatal() with both streams on the day after the construction: verify() opened
\* the new files, write() appended both lines, then the mirror, then the alert
C31_Witness ==
    /\ LogCall /\ obs.level = "FATAL" /\ obs.pre.initialized /\ cfg.json
    /\ VerifyIO # <<>> /\ Len(WriteIO) = 2 /\ obs.sent
    /\ obs.calls = <<"verify", "write", "mirror", "sendAlert">>

\* the files the streams of the configuration append to after the step
ActiveFiles == IF cfg.json THEN {svc'.txtFilename, svc'.jsonFilename} ELSE {svc'.txtFilename}

\* C32. On an initialized engine with no I/O failure, each logging call appends
\* exactly one line to the active text file and, if and only if JSON is enabled,
\* exactly one line to the active JSON file; no entry is appended twice and no
\* entry is appended to a file other than the active one.
C32_OneLinePerActiveFile ==
    [][(LogStep /\ svc.initialized /\ NoIOFailure') =>
         /\ \A p \in ActiveFiles : p \in DOMAIN disk'.files
         /\ \A p \in DOMAIN disk'.files :
               LinesOf(disk', p) = LinesOf(disk, p) + (IF p \in ActiveFiles THEN 1 ELSE 0)
         /\ Len(WriteIO') = Cardinality(ActiveFiles)
         /\ \A i \in 1..Len(WriteIO') : WriteIO'[i].target \in ActiveFiles]_vars

\* the second logging call of a day with both streams, no I/O call ever failing:
\* each active file holds the two entries
C32_Witness ==
    /\ LogCall /\ obs.pre.initialized /\ cfg.json /\ NoIOFailure /\ faults = MaxFaults
    /\ svc.txtFilename \in DOMAIN disk.files /\ svc.jsonFilename \in DOMAIN disk.files
    /\ disk.files[svc.txtFilename].lines = 2
    /\ disk.files[svc.jsonFilename].lines = 2
    /\ Cardinality(DOMAIN disk.files) > 2

\* the step is the transport's answer to a sendMail in flight
DeliveryStep == Len(deliveries') = Len(deliveries) /\ deliveries' # deliveries

\* C33. A fatal call returns to its caller without waiting for the alert's
\* delivery to complete: when it returns the delivery it started is in flight.
\* The outcome of the delivery, success or failure, changes neither the call's
\* return (nothing is thrown, no rejection is left unhandled) nor the entry
\* already written to the files.
C33_FatalDoesNotAwaitDelivery ==
    [][/\ (LogStep /\ obs'.sent) =>
             /\ obs'.level = "FATAL" /\ ~obs'.threw
             /\ Len(deliveries') = Len(deliveries) + 1
             /\ deliveries'[Len(deliveries')].state = "pending"
             /\ \A i \in 1..Len(deliveries) : deliveries'[i] = deliveries[i]
       /\ DeliveryStep =>
             /\ disk' = disk /\ svc' = svc /\ tasks' = tasks /\ steps' = steps
             /\ obs'.op = obs.op /\ obs'.io = obs.io /\ obs'.calls = obs.calls
             /\ obs'.threw = obs.threw /\ ~obs'.unhandled]_vars

\* a fatal() whose entry was appended and whose delivery then failed
C33_Witness ==
    /\ LogCall /\ obs.level = "FATAL" /\ obs.sent /\ ~obs.threw
    /\ WriteIO # <<>> /\ NoIOFailure
    /\ disk.files[svc.txtFilename].lines >= 1
    /\ deliveries[Len(deliveries)].state = "failed"

\* C34. Rotation is keyed on day-of-month only: when verify() runs on a calendar
\* date other than the one the day was stored on, whose day-of-month equals the
\* stored currentDayOfMonth, no rotation happens, the active paths are unchanged,
\* and the entry is appended to the file of the earlier date.
C34_KeyedOnDayOfMonth ==
    [][(/\ LogStep /\ svc.initialized
        /\ getDate(now) = svc.currentDay /\ DateOf(now) # DateOf(StartNow)) =>
          /\ VerifyIO' = <<>> /\ ~obs'.rotated /\ tasks' = tasks
          /\ svc' = svc
          /\ WriteIO' # <<>> /\ WriteIO'[1].kind = "line"
          /\ WriteIO'[1].target = svc.txtFilename
          /\ NameDate(svc.txtFilename) # DateOf(now)
          /\ WriteIO'[1].ok =>
                LinesOf(disk', svc.txtFilename) = LinesOf(disk, svc.txtFilename) + 1]_vars

\* an entry logged a month after the construction, on the same day-of-month, and
\* appended to the file the engine had been left with
C34_Witness ==
    /\ LogCall /\ obs.pre.initialized
    /\ getDate(obs.at) = obs.pre.currentDay /\ DateOf(obs.at) # DateOf(StartNow)
    /\ WriteIO # <<>> /\ WriteIO[1].ok
    /\ NameDate(WriteIO[1].target) # DateOf(obs.at)

\* the files of the suffix and the directory of `p` that were modified no earlier
\* than `p`, `p` apart
NoOlder(d, p) ==
    {q \in DOMAIN d.files :
        /\ q # p /\ q.dir = p.dir /\ q.name.ext = p.name.ext
        /\ d.files[q].mtime >= d.files[p].mtime}

\* the cap of the stream a file belongs to
CapOfFile(p) == filecountOf(cfg, p.name.ext)

\* C36. Under any interleaving of logging calls with one or more cleanup passes in
\* flight, the caps being at least 1, a cleanup pass never deletes the active file
\* of a stream nor any file that is among the cap newest of that stream, and a
\* logging call made during a cleanup pass still appends its entry.
C36_CleanupSparesActiveAndNewest ==
    [][/\ \A p \in DOMAIN disk.files \ DOMAIN disk'.files :
             /\ p # svc.txtFilename
             /\ cfg.json => p # svc.jsonFilename
             /\ Cardinality(NoOlder(disk, p)) >= CapOfFile(p)
       /\ (LogStep /\ svc.initialized /\ tasks # <<>> /\ Refused(obs'.io) = {}) =>
             /\ WriteIO' # <<>>
             /\ \A i \in 1..Len(WriteIO') : WriteIO'[i].ok]_vars

\* C23. A fatal call made while the retention engine is not initialized returns
\* after emitting the error: it does not invoke the notifier, so no alert is
\* delivered for an entry that was dropped.
C23_NoAlertForDroppedFatal ==
    (LogCall /\ obs.level = "FATAL" /\ ~obs.pre.initialized) =>
        /\ ~obs.sent
        /\ mail.lastEmailSent = obs.mailPre.lastEmailSent

----------------------------------------------------------------------------
(* Claims about Config (SpecConfig) *)

\* the i-th Config is that of a logger constructed with a client name and no
\* directory option
PerClient(i) ==
    /\ confs[i].by = "VLoggo"
    /\ has(confs[i].options, "client") /\ ~has(confs[i].options, "directory")

\* the directories of the i-th Config
DirectoryOf(i) == heap[confs[i].config.directory]

\* the path has the segment `name`
Contains(path, name) == \E k \in 1..Len(path) : path[k] = name

\* C14. Default directories are per client: a logger constructed with a client name
\* and no directory option has its text and JSON directories under a home-relative
\* path that contains the client name, so that two such loggers of different client
\* names have different directories.  Stated while no Config has been updated.
C14_DirectoriesPerClient ==
    steps = Len(confs) =>
        \A i \in 1..Len(confs) :
            PerClient(i) =>
                /\ Contains(DirectoryOf(i).txt, confs[i].options.client)
                /\ Contains(DirectoryOf(i).json, confs[i].options.client)
                /\ \A j \in 1..Len(confs) :
                      (PerClient(j) /\ confs[j].options.client # confs[i].options.client) =>
                          /\ DirectoryOf(i).txt # DirectoryOf(j).txt
                          /\ DirectoryOf(i).json # DirectoryOf(j).json

\* the step is a call of update()
UpdateStep == steps' = steps + 1 /\ obs'.op = "update"

\* the property k of the object `old` after an update that was given the part `o` of it
Provided(o, k, old) == IF has(o, k) THEN o[k] ELSE old[k]

\* C15. Config.update(options) sets every property that options provides to the
\* provided value, the values 0 of throttle, filecount.txt and filecount.json
\* included, and leaves every property not provided unchanged; a partial smtp is
\* merged with the smtp settings already there.
C15_UpdateSetsProvided ==
    [][UpdateStep =>
         LET o   == obs'.options
             old == read(heap, confs[obs'.inst].config)
             new == read(heap', confs'[obs'.inst].config)
         IN /\ \A k \in {"client", "json", "debug", "console", "notify", "throttle"} :
                  new[k] = Provided(o, k, old)
            /\ \A k \in {"txt", "json"} :
                  /\ new.filecount[k] =
                        Provided(IF has(o, "filecount") THEN o.filecount ELSE <<>>, k,
                                 old.filecount)
                  /\ new.directory[k] =
                        Provided(IF has(o, "directory") THEN o.directory ELSE <<>>, k,
                                 old.directory)
            /\ new.smtp = IF ~has(o, "smtp") THEN old.smtp
                          ELSE <<spread(IF old.smtp = <<>> THEN <<>> ELSE old.smtp[1],
                                        o.smtp)>>]_vars

\* C40. Config instances share no mutable state: an update() on one Config, a
\* clone or the original of a clone or the Config of another logger, changes no
\* value read from any other Config; so an update of one logger's filecount or
\* directory never changes the configuration of another logger that was
\* constructed with default options.
C40_NoSharedMutableState ==
    [][UpdateStep =>
         \A j \in 1..Len(confs) :
             j # obs'.inst =>
                 read(heap', confs'[j].config) = read(heap, confs[j].config)]_vars

====
